---- MODULE Spec2Model ----
(***************************************************************************)
(* Model of scripts/gdb-helpers.py: the three GDB commands dump-pagetable, *)
(* dump-idt and dump-gdt of the Yomi OS kernel debugging helpers.          *)
(*                                                                         *)
(* A Python integer is modelled as the set of the positions of its 1 bits  *)
(* (0x2003 is {0, 1, 13}), so that 64-bit and 128-bit values are exact:    *)
(*   x & y   is  x \cap y          x | y   is  x \cup y                    *)
(*   x & ~m  is  x \ m             x << k, x >> k move the positions       *)
(*   x + y   is  ripple-carry addition (Add)                               *)
(* One behaviour is one command invocation: Init is the state after the    *)
(* commands were registered, an Invoke action is the start of a command,   *)
(* and every memory read of the command is one step.  The target's memory  *)
(* is never written by the commands; mem records what the target holds at  *)
(* the addresses read so far, and a cell not read yet holds any value of   *)
(* the target memories considered (CellPool) or is unmapped.               *)
(***************************************************************************)
EXTENDS Integers, FiniteSets, Sequences, TLC

VARIABLES
    pc,          \* position of the running command
    cmd,         \* the command invoked: "none" before an invocation
    count,       \* dump-idt / dump-gdt: the count after argument parsing
    virt_addr,   \* walk_page_table: the address translated
    base,        \* the table base in use: pml4_base, pdpt_base, pd_base, pt_base, idt_base, gdt_base
    limit,       \* dump-idt / dump-gdt: idt_limit, gdt_limit
    max_entries, \* dump-idt / dump-gdt: max_entries; dump_pml4_entries: count
    i,           \* loop index of the dump loops
    mem,         \* target memory observed so far: address -> cell
    reads,       \* every target memory read made, in order
    out,         \* every print() call made, in order
    reg          \* what the register read of the command returned

vars == <<pc, cmd, count, virt_addr, base, limit, max_entries, i, mem, reads, out, reg>>

----------------------------------------------------------------------------
(* Bounds of the model *)

\* at most this many unmapped cells are met by one command
MaxFaults == 2
\* dump-idt / dump-gdt are invoked with a count argument in 0..MaxCount, or none
MaxCount == 3

----------------------------------------------------------------------------
(* Python integers as sets of bit positions *)

Low(n) == 0 .. (n - 1)

ToWord(n) == {b \in 0..30 : (n \div 2^b) % 2 = 1}

Shl(w, k) == {b + k : b \in w}

Shr(w, k) == {b - k : b \in {c \in w : c >= k}}

AndNot(w, m) == w \ m

U64(w3, w2, w1, w0) ==
    Shl(ToWord(w3), 48) \cup Shl(ToWord(w2), 32) \cup Shl(ToWord(w1), 16) \cup ToWord(w0)

Top(w) == IF w = {} THEN 0 ELSE CHOOSE b \in w : \A c \in w : c <= b

\* the bits of x + y from position b up, with carry c into position b
RECURSIVE AddCarry(_, _, _, _, _)
AddCarry(x, y, b, c, top) ==
    IF b > top /\ c = 0 THEN {}
    ELSE LET s == (IF b \in x THEN 1 ELSE 0) + (IF b \in y THEN 1 ELSE 0) + c
         IN  (IF s % 2 = 1 THEN {b} ELSE {}) \cup AddCarry(x, y, b + 1, s \div 2, top)

Add(x, y) == AddCarry(x, y, 0, 0, Top(x \cup y))

----------------------------------------------------------------------------
(* The target: registers and memory *)

\* a memory cell of the target: mapped with its content, or unmapped
Mapped(w) == [mapped |-> TRUE, data |-> w]
Unmapped == [mapped |-> FALSE, data |-> {}]

\* the result of read_u64 / read_bytes: a value, or Python's None
Some(w) == [ok |-> TRUE, v |-> w]
None == [ok |-> FALSE, v |-> {}]

Pml4Root == U64(0, 0, 0, \h1000)
IdtBase == U64(\hFFFF, \h8000, \h0010, \h6000)
GdtBase == U64(\hFFFF, \h8000, \h0010, \h7000)

\* $cr3: the root table at 0x1000, with the PWT and PCD flag bits set
Cr3Vals == {U64(0, 0, 0, \h1018)}

\* page-table entries the target memories hold
EntryVals ==
    { U64(0, 0, 0, \h2003),                   \* present, writable, table at 0x2000
      U64(0, 0, 0, \h3021),                   \* present, accessed, table at 0x3000
      U64(0, 0, 0, \h3087),                   \* present, page-size bit set
      U64(\h8000, \h0001, \hC060, \h40E3),    \* present, page-size, NX, bits in 14, 21..22, 30..32
      U64(0, 0, 0, \h2082),                   \* not present, page-size bit set
      {} }                                    \* zero

\* PML4 slots 2..15 of the root table hold a fixed pattern
PatternSlots == 2 .. 15
Pattern(k) ==
    CASE k % 3 = 0 -> U64(0, 0, 0, k * 4096 + 3)
      [] k % 3 = 1 -> {}
      [] OTHER     -> U64(\h8000, 0, 0, k * 4096 + 2)

\* 16-byte IDT gate records, little-endian, as 128-bit integers
IdtRec(offset_low, selector, ist, type_attr, offset_mid, hi32, rsvd) ==
    ToWord(offset_low) \cup Shl(ToWord(selector), 16) \cup Shl(ToWord(ist), 32)
      \cup Shl(ToWord(type_attr), 40) \cup Shl(ToWord(offset_mid), 48)
      \cup Shl(hi32, 64) \cup Shl(ToWord(rsvd), 96)

IdtRecs ==
    { IdtRec(\h1234, \h0008, 0, \h8E, \h5678, U64(0, 0, \h9ABC, \hDEF0), 0),  \* present interrupt gate
      IdtRec(0, \h0008, 0, \h8F, 0, {}, 0),                                 \* present, offset 0
      IdtRec(\h1234, \h0008, 0, \h0E, \h5678, U64(0, 0, \h9ABC, \hDEF0), 0),  \* not present
      IdtRec(0, \h0010, \hFF, \hEE, 0, U64(0, 0, 0, 1), \hFFFF),            \* present, offset in the high part only
      {} }                                                                  \* zero

\* 8-byte GDT descriptors
GdtVals ==
    { {},                                     \* zero
      U64(\h00AF, \h9A00, 0, \hFFFF),         \* present code segment
      U64(\h00CF, \h1200, 0, \hFFFF),         \* non-zero, bit 47 clear
      U64(0, \h8000, 0, 0) }                  \* only bit 47 set

IdtLimits == {0, 14, 15, 31, 47}
GdtLimits == {0, 6, 7, 15, 23}

IdtCells == {Add(IdtBase, ToWord(k * 16)) : k \in 0..3}
GdtCells == {Add(GdtBase, ToWord(k * 8)) : k \in 0..3}

PatternCells == {<<Add(Pml4Root, ToWord(k * 8)), Pattern(k)>> : k \in PatternSlots}

\* what a cell of the target memories considered may hold, by address
CellPool(a) ==
    IF \E p \in PatternCells : p[1] = a
      THEN {p[2] : p \in {q \in PatternCells : q[1] = a}}
    ELSE IF a \in IdtCells THEN IdtRecs
    ELSE IF a \in GdtCells THEN GdtVals
    ELSE EntryVals

Faults == Cardinality({a \in DOMAIN mem : ~mem[a].mapped})

\* the cells the target may hold at address a, given what was observed
Cells(a) ==
    IF a \in DOMAIN mem THEN {mem[a]}
    ELSE {Mapped(w) : w \in CellPool(a)} \cup (IF Faults < MaxFaults THEN {Unmapped} ELSE {})

Observe(a, c) == IF a \in DOMAIN mem THEN mem ELSE (a :> c) @@ mem

\* read_u64 with the failure turned into the value 0
read_u64_zero(c) == IF c.mapped THEN Some(c.data \cap Low(64)) ELSE Some({})

\* read_u64: the value, or None when gdb raises MemoryError
read_u64(c) == IF c.mapped THEN Some(c.data \cap Low(64)) ELSE None

\* read_bytes(address, 16): the bytes (as a little-endian integer), or None
read_bytes(c) == IF c.mapped THEN Some(c.data \cap Low(128)) ELSE None

----------------------------------------------------------------------------
(* Output lines: one record per print() call *)

Line(t) == [t |-> t]
EntryLine(level, idx, a, e) == [t |-> "entry", level |-> level, idx |-> idx, a |-> a, v |-> e]
UnreadableLine(level) == [t |-> "unreadable", level |-> level]
NotPresentLine == [t |-> "not_present"]
ResolvedLine(size, pa) == [t |-> "resolved", size |-> size, pa |-> pa]

----------------------------------------------------------------------------
(* Command arguments, after gdb.string_to_argv *)

NoArg == [given |-> FALSE, valid |-> FALSE, v |-> {}]
BadArg == [given |-> TRUE, valid |-> FALSE, v |-> {}]
AddrArg(w) == [given |-> TRUE, valid |-> TRUE, v |-> w]

VAddrs ==
    { U64(0, 0, 0, \h0ABC),                     \* indices 0, 0, 0, 0, offset 0xABC
      U64(0, \h0080, \h8060, \h4123),           \* indices 1, 2, 3, 4, offset 0x123
      U64(\hFFFF, \hFFFF, \hFFFF, \hFFFF) }     \* indices 511, offset 0xFFF

PageTableArgs == {NoArg, BadArg} \cup {AddrArg(w) : w \in VAddrs}

\* int(gdb.parse_and_eval("$cr3")), or gdb.error
Cr3Outcomes == {None} \cup {Some(w) : w \in Cr3Vals}

Init ==
    /\ pc = "idle"
    /\ cmd = "none"
    /\ count = 0
    /\ virt_addr = {}
    /\ base = {}
    /\ limit = 0
    /\ max_entries = 0
    /\ i = 0
    /\ mem = <<>>
    /\ reads = <<>>
    /\ out = <<>>
    /\ reg = None

----------------------------------------------------------------------------
(* dump-pagetable *)

PML4_DUMP_COUNT == 16

Pml4Index(v) == Shr(v, 39) \cap Low(9)
PdptIndex(v) == Shr(v, 30) \cap Low(9)
PdIndex(v) == Shr(v, 21) \cap Low(9)
PtIndex(v) == Shr(v, 12) \cap Low(9)
PageOffset(v) == v \cap Low(12)

\* table_base + (index * 8)
EntryAddr(table_base, index) == Add(table_base, Shl(index, 3))

\* the present test on bit 1 (entry & 0x2)
PresentBit1(entry) == 1 \in entry

\* entry & 0x1
Present(entry) == 0 \in entry

\* entry & 0x80
PageSize(entry) == 7 \in entry

\* the table base without the flag bits masked off
TableBaseUnmasked(entry) == entry

\* entry & ~0xFFF
TableBase(entry) == AndNot(entry, Low(12))

\* the 1GB address with the 4KB table mask
PhysAddr1G_TableMask(entry, v) == AndNot(entry, Low(12)) \cup (v \cap Low(30))

\* (pdpt_entry & ~0x3FFFFFFF) | (virt_addr & 0x3FFFFFFF)
PhysAddr1G(entry, v) == AndNot(entry, Low(30)) \cup (v \cap Low(30))

\* the 2MB address with the 4KB table mask
PhysAddr2M_TableMask(entry, v) == AndNot(entry, Low(12)) \cup (v \cap Low(21))

\* (pd_entry & ~0x1FFFFF) | (virt_addr & 0x1FFFFF)
PhysAddr2M(entry, v) == AndNot(entry, Low(21)) \cup (v \cap Low(21))

\* (pt_entry & ~0xFFF) | offset
PhysAddr4K(entry, v) == AndNot(entry, Low(12)) \cup PageOffset(v)

FlagNames ==
    (0 :> "P") @@ (1 :> "W") @@ (2 :> "U") @@ (3 :> "PWT") @@ (4 :> "PCD") @@
    (5 :> "A") @@ (6 :> "D") @@ (7 :> "PS") @@ (8 :> "G") @@ (63 :> "NX")

\* print_page_entry_flags: the line of the flags set in the entry
print_page_entry_flags(entry) ==
    [t |-> "flags", flags |-> {FlagNames[b] : b \in entry \cap DOMAIN FlagNames}]

\* DumpPageTable.invoke: read CR3, print the header, dispatch on the argument
InvokeDumpPageTable ==
    /\ pc = "idle"
    /\ cmd' = "pagetable"
    /\ \E arg \in PageTableArgs, cr3 \in Cr3Outcomes :
         /\ reg' = cr3
         /\ IF ~cr3.ok
           THEN /\ out' = out \o <<Line("Error: Cannot read CR3 register")>>
                /\ pc' = "done"
                /\ UNCHANGED <<virt_addr, base, max_entries>>
           ELSE LET pml4_base == AndNot(cr3.v, Low(12))
                    header == << Line("rule"), [t |-> "cr3", v |-> cr3.v],
                                 [t |-> "pml4_base", v |-> pml4_base], Line("rule") >>
                IN  /\ base' = pml4_base
                    /\ IF ~arg.given
                         THEN /\ pc' = "dump_pml4"
                              /\ max_entries' = PML4_DUMP_COUNT
                              /\ out' = out \o header
                              /\ UNCHANGED virt_addr
                       ELSE IF ~arg.valid
                         THEN /\ pc' = "done"
                              /\ out' = out \o header \o <<Line("Error: Invalid address")>>
                              /\ UNCHANGED <<virt_addr, max_entries>>
                       ELSE /\ pc' = "walk"
                            /\ virt_addr' = arg.v
                            /\ out' = out \o header
                            /\ UNCHANGED max_entries
    /\ UNCHANGED <<count, limit, i, mem, reads>>

\* walk_page_table, up to the first read: the indices line
WalkBegin ==
    /\ pc = "walk"
    /\ out' = out \o << [t |-> "translating", v |-> virt_addr], Line("dashes"),
                        [t |-> "indices", pml4 |-> Pml4Index(virt_addr),
                         pdpt |-> PdptIndex(virt_addr), pd |-> PdIndex(virt_addr),
                         pt |-> PtIndex(virt_addr), offset |-> PageOffset(virt_addr)],
                        Line("blank") >>
    /\ pc' = "pml4"
    /\ UNCHANGED <<cmd, count, virt_addr, base, limit, max_entries, i, mem, reads, reg>>

\* walk_page_table: read the PML4 entry
ReadPml4Entry ==
    /\ pc = "pml4"
    /\ LET pml4_index == Pml4Index(virt_addr)
           pml4_entry_addr == EntryAddr(base, pml4_index)
       IN  \E c \in Cells(pml4_entry_addr) :
             LET pml4_entry == read_u64(c)
                 shown == << EntryLine("PML4", pml4_index, pml4_entry_addr, pml4_entry.v),
                             print_page_entry_flags(pml4_entry.v) >>
             IN  /\ mem' = Observe(pml4_entry_addr, c)
                 /\ reads' = Append(reads, [a |-> pml4_entry_addr, n |-> 8])
                 /\ IF ~pml4_entry.ok
                      THEN /\ out' = Append(out, UnreadableLine("PML4"))
                           /\ pc' = "done"
                           /\ UNCHANGED base
                    ELSE IF ~Present(pml4_entry.v)
                      THEN /\ out' = out \o shown \o <<NotPresentLine>>
                           /\ pc' = "done"
                           /\ UNCHANGED base
                    ELSE /\ out' = out \o shown
                         /\ base' = TableBase(pml4_entry.v)
                         /\ pc' = "pdpt"
    /\ UNCHANGED <<cmd, count, virt_addr, limit, max_entries, i, reg>>

\* walk_page_table: read the PDPT entry; a 1GB page ends the walk
ReadPdptEntry ==
    /\ pc = "pdpt"
    /\ LET pdpt_index == PdptIndex(virt_addr)
           pdpt_entry_addr == EntryAddr(base, pdpt_index)
       IN  \E c \in Cells(pdpt_entry_addr) :
             LET pdpt_entry == read_u64(c)
                 shown == << EntryLine("PDPT", pdpt_index, pdpt_entry_addr, pdpt_entry.v),
                             print_page_entry_flags(pdpt_entry.v) >>
             IN  /\ mem' = Observe(pdpt_entry_addr, c)
                 /\ reads' = Append(reads, [a |-> pdpt_entry_addr, n |-> 8])
                 /\ IF ~pdpt_entry.ok
                      THEN /\ out' = Append(out, UnreadableLine("PDPT"))
                           /\ pc' = "done"
                           /\ UNCHANGED base
                    ELSE IF ~Present(pdpt_entry.v)
                      THEN /\ out' = out \o shown \o <<NotPresentLine>>
                           /\ pc' = "done"
                           /\ UNCHANGED base
                    ELSE IF PageSize(pdpt_entry.v)
                      THEN /\ out' = out \o shown
                                     \o <<ResolvedLine("1GB", PhysAddr1G(pdpt_entry.v, virt_addr))>>
                           /\ pc' = "done"
                           /\ UNCHANGED base
                    ELSE /\ out' = out \o shown
                         /\ base' = TableBase(pdpt_entry.v)
                         /\ pc' = "pd"
    /\ UNCHANGED <<cmd, count, virt_addr, limit, max_entries, i, reg>>

\* walk_page_table: read the PD entry; a 2MB page ends the walk
ReadPdEntry ==
    /\ pc = "pd"
    /\ LET pd_index == PdIndex(virt_addr)
           pd_entry_addr == EntryAddr(base, pd_index)
       IN  \E c \in Cells(pd_entry_addr) :
             LET pd_entry == read_u64(c)
                 shown == << EntryLine("PD", pd_index, pd_entry_addr, pd_entry.v),
                             print_page_entry_flags(pd_entry.v) >>
             IN  /\ mem' = Observe(pd_entry_addr, c)
                 /\ reads' = Append(reads, [a |-> pd_entry_addr, n |-> 8])
                 /\ IF ~pd_entry.ok
                      THEN /\ out' = Append(out, UnreadableLine("PD"))
                           /\ pc' = "done"
                           /\ UNCHANGED base
                    ELSE IF ~Present(pd_entry.v)
                      THEN /\ out' = out \o shown \o <<NotPresentLine>>
                           /\ pc' = "done"
                           /\ UNCHANGED base
                    ELSE IF PageSize(pd_entry.v)
                      THEN /\ out' = out \o shown
                                     \o <<ResolvedLine("2MB", PhysAddr2M(pd_entry.v, virt_addr))>>
                           /\ pc' = "done"
                           /\ UNCHANGED base
                    ELSE /\ out' = out \o shown
                         /\ base' = TableBase(pd_entry.v)
                         /\ pc' = "pt"
    /\ UNCHANGED <<cmd, count, virt_addr, limit, max_entries, i, reg>>

\* walk_page_table: read the PT entry and resolve the 4KB page
ReadPtEntry ==
    /\ pc = "pt"
    /\ LET pt_index == PtIndex(virt_addr)
           pt_entry_addr == EntryAddr(base, pt_index)
       IN  \E c \in Cells(pt_entry_addr) :
             LET pt_entry == read_u64(c)
                 shown == << EntryLine("PT", pt_index, pt_entry_addr, pt_entry.v),
                             print_page_entry_flags(pt_entry.v) >>
             IN  /\ mem' = Observe(pt_entry_addr, c)
                 /\ reads' = Append(reads, [a |-> pt_entry_addr, n |-> 8])
                 /\ pc' = "done"
                 /\ IF ~pt_entry.ok
                      THEN out' = Append(out, UnreadableLine("PT"))
                    ELSE IF ~Present(pt_entry.v)
                      THEN out' = out \o shown \o <<NotPresentLine>>
                    ELSE out' = out \o shown
                                \o <<ResolvedLine("4KB", PhysAddr4K(pt_entry.v, virt_addr))>>
    /\ UNCHANGED <<cmd, count, virt_addr, base, limit, max_entries, i, reg>>

\* a dump loop that stops at the first failed read
LoopPcAbort(loop, failed, k, n) == IF ~failed /\ k + 1 < n THEN loop ELSE "done"

\* for i in range(n): where a dump loop stands after entry k, whether or not
\* its read failed (continue in dump_pml4_entries, return in print_*_entry)
LoopPc(loop, failed, k, n) == IF k + 1 < n THEN loop ELSE "done"

\* dump_pml4_entries: the header lines
DumpPml4Begin ==
    /\ pc = "dump_pml4"
    /\ out' = out \o <<[t |-> "first_n", n |-> max_entries], Line("dashes")>>
    /\ i' = 0
    /\ pc' = IF max_entries > 0 THEN "dump_pml4_loop" ELSE "done"
    /\ UNCHANGED <<cmd, count, virt_addr, base, limit, max_entries, mem, reads, reg>>

\* dump_pml4_entries: one iteration of the loop
DumpPml4Entry ==
    /\ pc = "dump_pml4_loop"
    /\ LET entry_addr == Add(base, ToWord(i * 8))
       IN  \E c \in Cells(entry_addr) :
             LET entry == read_u64(c)
             IN  /\ mem' = Observe(entry_addr, c)
                 /\ pc' = LoopPc("dump_pml4_loop", ~entry.ok, i, max_entries)
                 /\ reads' = Append(reads, [a |-> entry_addr, n |-> 8])
                 /\ IF ~entry.ok
                      THEN out' = Append(out, [t |-> "pml4_error", idx |-> i])
                    ELSE IF Present(entry.v)
                      THEN out' = Append(out, [t |-> "pml4", idx |-> i, a |-> entry_addr,
                                               v |-> entry.v,
                                               flags |-> {FlagNames[b] : b \in entry.v \cap {0, 1, 2, 63}}])
                    ELSE out' = out
    /\ i' = i + 1
    /\ UNCHANGED <<cmd, count, virt_addr, base, limit, max_entries, reg>>

----------------------------------------------------------------------------
(* dump-idt and dump-gdt *)

DEFAULT_IDT_COUNT == 256
DEFAULT_GDT_COUNT == 16
IDT_ENTRY_SIZE == 16
GDT_ENTRY_SIZE == 8

CountArg(n) == [given |-> TRUE, n |-> n]
NoCountArg == [given |-> FALSE, n |-> 0]
CountArgs == {NoCountArg} \cup {CountArg(n) : n \in 0..MaxCount}

\* gdb.execute("info registers idtr", to_string=True): gdb.error, or the text.
\* The text is the sequence of the fields it shows, in order, with their values.
RegError == [raised |-> TRUE, fields |-> <<>>, base |-> {}, limit |-> 0]
RegText(fields, b, l) == [raised |-> FALSE, fields |-> fields, base |-> b, limit |-> l]

RegOutcomes(b, limits) ==
    {RegError, RegText(<<>>, {}, 0)}
      \cup {RegText(<<"limit", "base">>, b, l) : l \in {15}}
      \cup {RegText(<<"base", "limit">>, b, l) : l \in limits}

\* a match that does not ask for base before limit
RegMatchUnordered(text) ==
    \E j, k \in DOMAIN text.fields : text.fields[j] = "base" /\ text.fields[k] = "limit"

\* re.search(r'base=(0x[0-9a-fA-F]+).*limit=(0x[0-9a-fA-F]+)', text): a match
\* needs a base field with a limit field after it
RegMatch(text) ==
    \E j, k \in DOMAIN text.fields :
        j < k /\ text.fields[j] = "base" /\ text.fields[k] = "limit"

Min(a, b) == IF a <= b THEN a ELSE b

\* the entry count rounded up: min(count, limit // entry_size + 1)
MaxEntriesCeil(n, l, entry_size) == Min(n, l \div entry_size + 1)

\* min(count, (limit + 1) // entry_size)
MaxEntries(n, l, entry_size) == Min(n, (l + 1) \div entry_size)

TableHeader(name, b, l, n) ==
    << Line("rule"), Line(name), [t |-> "base_limit", base |-> b, limit |-> l],
       [t |-> "max_entries", n |-> n], Line("rule") >>

\* DumpIDT.invoke, up to the loop
InvokeDumpIDT ==
    /\ pc = "idle"
    /\ cmd' = "idt"
    /\ \E arg \in CountArgs, idtr_output \in RegOutcomes(IdtBase, IdtLimits) :
         LET n == IF arg.given THEN arg.n ELSE DEFAULT_IDT_COUNT
         IN  /\ count' = n
             /\ reg' = idtr_output
             /\ IF idtr_output.raised
                  THEN /\ out' = out \o <<Line("Error reading IDTR")>>
                       /\ pc' = "done"
                       /\ UNCHANGED <<base, limit, max_entries>>
                ELSE IF ~RegMatch(idtr_output)
                  THEN /\ out' = out \o << Line("Error: Cannot parse IDTR"),
                                           [t |-> "idtr_output", text |-> idtr_output] >>
                       /\ pc' = "done"
                       /\ UNCHANGED <<base, limit, max_entries>>
                ELSE LET m == MaxEntries(n, idtr_output.limit, IDT_ENTRY_SIZE)
                     IN  /\ base' = idtr_output.base
                         /\ limit' = idtr_output.limit
                         /\ max_entries' = m
                         /\ out' = out \o TableHeader("Interrupt Descriptor Table (IDT)",
                                                      idtr_output.base, idtr_output.limit, m)
                         /\ pc' = IF m > 0 THEN "idt_loop" ELSE "done"
    /\ i' = 0
    /\ UNCHANGED <<virt_addr, mem, reads>>

\* entry_bytes[lo:hi] unpacked as a little-endian unsigned integer
Unpack(entry_bytes, lo, hi) == Shr(entry_bytes, 8 * lo) \cap Low(8 * (hi - lo))

\* the offset without its high 32 bits
IdtOffsetLow32(entry_bytes) ==
    Shl(Unpack(entry_bytes, 6, 8), 16) \cup Unpack(entry_bytes, 0, 2)

\* (offset_high << 32) | (offset_mid << 16) | offset_low
IdtOffset(entry_bytes) ==
    Shl(Unpack(entry_bytes, 8, 12), 32) \cup Shl(Unpack(entry_bytes, 6, 8), 16)
      \cup Unpack(entry_bytes, 0, 2)

\* type_attr = entry_bytes[5]
TypeAttr(entry_bytes) == Unpack(entry_bytes, 5, 6)

\* present = (type_attr & 0x80) != 0
IdtPresent(entry_bytes) == 7 \in TypeAttr(entry_bytes)

\* gate_type_names.get(gate_type, "Unknown(...)")
GateTypeName(gate_type) ==
    IF gate_type = ToWord(14) THEN "Interrupt"
    ELSE IF gate_type = ToWord(15) THEN "Trap"
    ELSE "Unknown"

\* if present and offset != 0
IdtListed(entry_bytes) == IdtPresent(entry_bytes) /\ IdtOffset(entry_bytes) # {}

IdtLine(index, entry_bytes) ==
    [t |-> "idt", idx |-> index, offset |-> IdtOffset(entry_bytes),
     selector |-> Unpack(entry_bytes, 2, 4),
     gate |-> GateTypeName(TypeAttr(entry_bytes) \cap Low(4)),
     dpl |-> Shr(TypeAttr(entry_bytes), 5) \cap Low(2),
     ist |-> Unpack(entry_bytes, 4, 5) \cap Low(3),
     present |-> IdtPresent(entry_bytes)]

\* the lines print_idt_entry prints for what read_bytes returned
IdtEntryOutput(index, entry_bytes) ==
    IF ~entry_bytes.ok THEN <<[t |-> "idt_error", idx |-> index]>>
    ELSE IF IdtListed(entry_bytes.v) THEN <<IdtLine(index, entry_bytes.v)>>
    ELSE <<>>

\* one iteration of DumpIDT.invoke's loop: print_idt_entry(idt_base, i)
PrintIdtEntry ==
    /\ pc = "idt_loop"
    /\ LET entry_addr == Add(base, ToWord(i * IDT_ENTRY_SIZE))
       IN  \E c \in Cells(entry_addr) :
             /\ mem' = Observe(entry_addr, c)
             /\ reads' = Append(reads, [a |-> entry_addr, n |-> 16])
             /\ out' = out \o IdtEntryOutput(i, read_bytes(c))
             /\ pc' = LoopPc("idt_loop", ~read_bytes(c).ok, i, max_entries)
    /\ i' = i + 1
    /\ UNCHANGED <<cmd, count, virt_addr, base, limit, max_entries, reg>>

\* DumpGDT.invoke, up to the loop
InvokeDumpGDT ==
    /\ pc = "idle"
    /\ cmd' = "gdt"
    /\ \E arg \in CountArgs, gdtr_output \in RegOutcomes(GdtBase, GdtLimits) :
         LET n == IF arg.given THEN arg.n ELSE DEFAULT_GDT_COUNT
         IN  /\ count' = n
             /\ reg' = gdtr_output
             /\ IF gdtr_output.raised
                  THEN /\ out' = out \o <<Line("Error reading GDTR")>>
                       /\ pc' = "done"
                       /\ UNCHANGED <<base, limit, max_entries>>
                ELSE IF ~RegMatch(gdtr_output)
                  THEN /\ out' = out \o <<Line("Error: Cannot parse GDTR")>>
                       /\ pc' = "done"
                       /\ UNCHANGED <<base, limit, max_entries>>
                ELSE LET m == MaxEntries(n, gdtr_output.limit, GDT_ENTRY_SIZE)
                     IN  /\ base' = gdtr_output.base
                         /\ limit' = gdtr_output.limit
                         /\ max_entries' = m
                         /\ out' = out \o TableHeader("Global Descriptor Table (GDT)",
                                                      gdtr_output.base, gdtr_output.limit, m)
                         /\ pc' = IF m > 0 THEN "gdt_loop" ELSE "done"
    /\ i' = 0
    /\ UNCHANGED <<virt_addr, mem, reads>>

\* present = (entry >> 47) & 0x1
GdtPresent(entry) == Shr(entry, 47) \cap Low(1) # {}

GdtLine(index, entry) ==
    [t |-> "gdt", idx |-> index, v |-> entry,
     dpl |-> Shr(entry, 45) \cap Low(2),
     type |-> Shr(entry, 40) \cap Low(4),
     present |-> GdtPresent(entry)]

\* print_gdt_entry without the zero-entry case
GdtEntryOutputNoNull(index, entry) ==
    IF ~entry.ok THEN <<[t |-> "gdt_error", idx |-> index]>>
    ELSE IF GdtPresent(entry.v) THEN <<GdtLine(index, entry.v)>>
    ELSE <<>>

\* the lines print_gdt_entry prints for what read_u64 returned
GdtEntryOutput(index, entry) ==
    IF ~entry.ok THEN <<[t |-> "gdt_error", idx |-> index]>>
    ELSE IF entry.v = {}
      THEN (IF index = 0 THEN <<[t |-> "gdt_null", idx |-> index]>> ELSE <<>>)
    ELSE IF GdtPresent(entry.v) THEN <<GdtLine(index, entry.v)>>
    ELSE <<>>

\* one iteration of DumpGDT.invoke's loop: print_gdt_entry(gdt_base, i)
PrintGdtEntry ==
    /\ pc = "gdt_loop"
    /\ LET entry_addr == Add(base, ToWord(i * GDT_ENTRY_SIZE))
       IN  \E c \in Cells(entry_addr) :
             /\ mem' = Observe(entry_addr, c)
             /\ reads' = Append(reads, [a |-> entry_addr, n |-> 8])
             /\ out' = out \o GdtEntryOutput(i, read_u64(c))
             /\ pc' = LoopPc("gdt_loop", ~read_u64(c).ok, i, max_entries)
    /\ i' = i + 1
    /\ UNCHANGED <<cmd, count, virt_addr, base, limit, max_entries, reg>>

----------------------------------------------------------------------------

Next ==
    \/ InvokeDumpPageTable
    \/ WalkBegin
    \/ ReadPml4Entry
    \/ ReadPdptEntry
    \/ ReadPdEntry
    \/ ReadPtEntry
    \/ DumpPml4Begin
    \/ DumpPml4Entry
    \/ InvokeDumpIDT
    \/ PrintIdtEntry
    \/ InvokeDumpGDT
    \/ PrintGdtEntry

Spec == Init /\ [][Next]_vars

----------------------------------------------------------------------------
(* Properties *)

Last(s) == s[Len(s)]

HasLine(t) == \E j \in DOMAIN out : out[j].t = t

\* the command is dump-pagetable with an address: walk_page_table runs
Walking == cmd = "pagetable" /\ HasLine("translating")

\* the command is dump-pagetable without an address: dump_pml4_entries runs
Dumping == cmd = "pagetable" /\ HasLine("first_n")

\* the target's cell at the address of the k-th read
Cell(k) == mem[reads[k].a]

Levels == <<"PML4", "PDPT", "PD", "PT">>

\* the index of the virtual address used at the k-th level
LevelIndex(k) == {b - (48 - 9 * k) : b \in {c \in virt_addr : c >= 48 - 9 * k /\ c < 57 - 9 * k}}

\* C1: in a walk, when the entry read at level k is the first with bit 0
\* clear, the walk has ended, its outcome is "not present" shown after the
\* entry of exactly that level, and the read of level k is the last read
\* (k reads in total).
C1_NotPresentShortCircuit ==
    Walking =>
      \A k \in DOMAIN reads :
        ( /\ Cell(k).mapped
          /\ 0 \notin Cell(k).data
          /\ \A j \in 1..(k - 1) : Cell(j).mapped /\ 0 \in Cell(j).data )
        => /\ pc = "done"
           /\ Len(reads) = k
           /\ Last(out) = [t |-> "not_present"]
           /\ out[Len(out) - 2].t = "entry"
           /\ out[Len(out) - 2].level = Levels[k]
           /\ out[Len(out) - 2].v = Cell(k).data
           /\ \A j \in DOMAIN out : out[j].t # "resolved"

C1_Witness ==
    /\ Walking /\ pc = "done" /\ Len(reads) = 4
    /\ Cell(4).mapped /\ 0 \notin Cell(4).data
    /\ Last(out) = [t |-> "not_present"]

\* C2: in a walk, when the read of the entry at level k fails, the walk has
\* ended with the outcome "unreadable at level k", that read is the last read
\* (no retry, no lower level) and no physical address is printed.
C2_UnreadableTerminal ==
    Walking =>
      \A k \in DOMAIN reads :
        ~Cell(k).mapped
        => /\ pc = "done"
           /\ Len(reads) = k
           /\ \A j \in 1..(k - 1) : reads[j].a # reads[k].a
           /\ Last(out) = [t |-> "unreadable", level |-> Levels[k]]
           /\ \A j \in DOMAIN out : out[j].t \notin {"resolved", "not_present"}

C2_Witness ==
    /\ Walking /\ pc = "done" /\ Len(reads) = 3
    /\ ~Cell(3).mapped
    /\ Last(out) = [t |-> "unreadable", level |-> "PD"]

\* C3: in a walk, a present PDPT entry E with bit 7 set ends the walk after
\* two reads with the 1GB address (E & ~0x3FFFFFFF) | (V & 0x3FFFFFFF); a
\* present PD entry E with bit 7 set ends it after three reads with the 2MB
\* address (E & ~0x1FFFFF) | (V & 0x1FFFFF).
C3_HugePageMasking ==
    Walking =>
      /\ (Len(reads) >= 2 /\ Cell(2).mapped /\ {0, 7} \subseteq Cell(2).data)
         => /\ pc = "done"
            /\ Len(reads) = 2
            /\ Last(out) = [t |-> "resolved", size |-> "1GB",
                            pa |-> (Cell(2).data \ (0..29)) \cup (virt_addr \cap (0..29))]
      /\ (Len(reads) >= 3 /\ Cell(3).mapped /\ {0, 7} \subseteq Cell(3).data)
         => /\ pc = "done"
            /\ Len(reads) = 3
            /\ 7 \notin Cell(2).data
            /\ Last(out) = [t |-> "resolved", size |-> "2MB",
                            pa |-> (Cell(3).data \ (0..20)) \cup (virt_addr \cap (0..20))]

C3_Witness ==
    /\ Walking /\ pc = "done" /\ Len(reads) = 3
    /\ Last(out).t = "resolved" /\ Last(out).size = "2MB"
    /\ Cell(3).data \cap (12..20) # {}
    /\ virt_addr \cap (12..20) # {}

\* The scenario of C4: root table 0x1000, PML4[0] = 0x2003 at 0x1000,
\* PDPT[0] = 0x3087 at 0x2000, virtual address 0xABC, walk finished.
C4_Scenario ==
    /\ Walking /\ pc = "done"
    /\ virt_addr = U64(0, 0, 0, \h0ABC)
    /\ Len(reads) >= 2
    /\ reads[1].a = U64(0, 0, 0, \h1000)
    /\ Cell(1) = [mapped |-> TRUE, data |-> U64(0, 0, 0, \h2003)]
    /\ reads[2].a = U64(0, 0, 0, \h2000)
    /\ Cell(2) = [mapped |-> TRUE, data |-> U64(0, 0, 0, \h3087)]

\* C4 as stated: the scenario resolves a 1GB page at 0x000000003FFF0ABC.
C4_Original ==
    C4_Scenario =>
      Last(out) = [t |-> "resolved", size |-> "1GB", pa |-> U64(0, 0, \h3FFF, \h0ABC)]

\* C4, amended: the scenario resolves a 1GB page at 0x0000000000000ABC, the
\* address the 1GB masking law gives for E = 0x3087 and V = 0xABC.
C4_EndToEnd ==
    C4_Scenario =>
      /\ Len(reads) = 2
      /\ Last(out) = [t |-> "resolved", size |-> "1GB", pa |-> U64(0, 0, 0, \h0ABC)]
      /\ U64(0, 0, 0, \h0ABC)
           = (U64(0, 0, 0, \h3087) \ (0..29)) \cup (U64(0, 0, 0, \h0ABC) \cap (0..29))

C4_Witness == C4_Scenario /\ Last(out).t = "resolved"

\* a dump loop runs: dump_pml4_entries, or the loop of dump-idt or dump-gdt
InDumpLoop == Dumping \/ (cmd \in {"idt", "gdt"} /\ HasLine("max_entries"))

EntrySize == IF cmd = "idt" THEN 16 ELSE 8

ErrorLineType ==
    CASE cmd = "idt" -> "idt_error" [] cmd = "gdt" -> "gdt_error" [] OTHER -> "pml4_error"

\* C5: in a dump loop over n entries (16 PML4 slots, or the clamped count of
\* dump-idt / dump-gdt), the k-th read is the read of index k-1, the loop
\* ends only after all n indices were read, whichever reads failed, and an
\* index has exactly one error line when its read failed and none otherwise.
C5_DumpNeverAborted ==
    InDumpLoop =>
      LET n == IF cmd = "pagetable" THEN 16 ELSE max_entries
      IN  /\ Len(reads) <= n
          /\ pc = "done" => Len(reads) = n
          /\ \A k \in DOMAIN reads :
               /\ reads[k].a = Add(base, ToWord((k - 1) * EntrySize))
               /\ Cardinality({j \in DOMAIN out :
                                 out[j].t = ErrorLineType /\ out[j].idx = k - 1})
                    = IF Cell(k).mapped THEN 0 ELSE 1

C5_Witness ==
    /\ Dumping /\ pc = "done" /\ Len(reads) = 16
    /\ ~Cell(3).mapped /\ ~Cell(4).mapped
    /\ Cell(16).mapped
    /\ Last(out).t = "pml4" /\ Last(out).idx = 15

\* the register text of dump-idt / dump-gdt was read and shows base, then limit
RegisterParsed == cmd \in {"idt", "gdt"} /\ ~reg.raised /\ reg.fields = <<"base", "limit">>

\* C6: dump-idt (entry size 16) and dump-gdt (entry size 8), once the
\* register is parsed, read exactly min(requested, (limit+1) div size)
\* indices, never an index at or above (limit+1) div size, and a request
\* for more than the table holds prints no error.
C6_Clamping ==
    RegisterParsed =>
      LET cap == (reg.limit + 1) \div EntrySize
          n == IF count <= cap THEN count ELSE cap
      IN  /\ Len(reads) <= n
          /\ pc = "done" => Len(reads) = n
          /\ \A k \in DOMAIN reads :
               \E m \in 0..(cap - 1) : reads[k].a = Add(reg.base, ToWord(m * EntrySize))
          /\ \A j \in DOMAIN out :
               out[j].t \notin {"Error reading IDTR", "Error: Cannot parse IDTR",
                                "Error reading GDTR", "Error: Cannot parse GDTR"}

C6_Witness ==
    /\ RegisterParsed /\ cmd = "idt" /\ pc = "done"
    /\ reg.limit = 47 /\ count = 256 /\ Len(reads) = 3

\* the register read of the command failed, or its text does not show
\* base, then limit
CommandFailed ==
    \/ cmd = "pagetable" /\ ~reg.ok
    \/ cmd \in {"idt", "gdt"} /\ (reg.raised \/ reg.fields # <<"base", "limit">>)

\* C7 as stated: a failed command prints exactly one line and reads no memory.
C7_Original ==
    CommandFailed => pc = "done" /\ Len(out) = 1 /\ reads = <<>>

\* C7, amended: a failed command reads no memory and prints no header and
\* no entry; it prints one diagnostic line, except dump-idt with an
\* unparsable IDTR text, which prints two (the error and the text).
C7_CommandFailure ==
    CommandFailed =>
      /\ pc = "done"
      /\ reads = <<>>
      /\ mem = <<>>
      /\ out = CASE cmd = "pagetable" -> <<[t |-> "Error: Cannot read CR3 register"]>>
                 [] cmd = "idt" /\ reg.raised -> <<[t |-> "Error reading IDTR"]>>
                 [] cmd = "idt" /\ ~reg.raised ->
                      <<[t |-> "Error: Cannot parse IDTR"], [t |-> "idtr_output", text |-> reg]>>
                 [] cmd = "gdt" /\ reg.raised -> <<[t |-> "Error reading GDTR"]>>
                 [] OTHER -> <<[t |-> "Error: Cannot parse GDTR"]>>

C7_Witness ==
    /\ cmd = "idt" /\ pc = "done"
    /\ ~reg.raised /\ reg.fields = <<"limit", "base">>
    /\ Len(out) = 2

\* the lines printed for index k of a descriptor table
LinesOf(k) == {j \in DOMAIN out : out[j].t \in {"idt", "idt_error", "gdt", "gdt_null", "gdt_error"}
                                   /\ out[j].idx = k}

\* C8: in the GDT dump, a readable zero entry at index 0 gives exactly the
\* null-descriptor line, a readable zero entry at another index gives no
\* line, and a readable non-zero entry gives a segment line if and only if
\* its bit 47 is set (and never the null-descriptor line).
C8_NullDescriptor ==
    (cmd = "gdt" /\ HasLine("max_entries")) =>
      \A k \in DOMAIN reads :
        Cell(k).mapped =>
          LET e == Cell(k).data
              lines == {out[j] : j \in LinesOf(k - 1)}
          IN  /\ Cardinality(LinesOf(k - 1)) = Cardinality(lines)
              /\ (e = {} /\ k = 1) => lines = {[t |-> "gdt_null", idx |-> 0]}
              /\ (e = {} /\ k # 1) => lines = {}
              /\ e # {} => /\ \A l \in lines : l.t = "gdt" /\ l.v = e
                           /\ (lines # {}) <=> (47 \in e)

C8_Witness ==
    /\ cmd = "gdt" /\ pc = "done" /\ Len(reads) = 3
    /\ Cell(1) = [mapped |-> TRUE, data |-> {}]
    /\ Cell(2) = [mapped |-> TRUE, data |-> {}]
    /\ Cell(3).mapped /\ 47 \in Cell(3).data
    /\ Len(out) = 7

\* C9: in the IDT dump, a readable record at an index gives an entry line
\* for that index if and only if bit 7 of its byte 5 is set and its offset
\* fields (bytes 0-1, 6-7, 8-11) are not all zero; otherwise it gives no
\* line at all; the line shows the reconstructed offset; and the entry
\* lines are in ascending index order.
C9_IdtSuppression ==
    (cmd = "idt" /\ HasLine("max_entries")) =>
      /\ \A k \in DOMAIN reads :
           Cell(k).mapped =>
             LET r == Cell(k).data
                 listed == 47 \in r /\ r \cap ((0..15) \cup (48..95)) # {}
                 offset == (r \cap (0..15)) \cup {b - 32 : b \in r \cap (48..63)}
                             \cup {b - 32 : b \in r \cap (64..95)}
             IN  /\ Cardinality(LinesOf(k - 1)) = IF listed THEN 1 ELSE 0
                 /\ \A j \in LinesOf(k - 1) : out[j].t = "idt" /\ out[j].offset = offset
      /\ \A j1, j2 \in DOMAIN out :
           (j1 < j2 /\ out[j1].t = "idt" /\ out[j2].t = "idt") => out[j1].idx < out[j2].idx

C9_Witness ==
    /\ cmd = "idt" /\ pc = "done" /\ Len(reads) = 3
    /\ Cell(1).mapped /\ 47 \in Cell(1).data /\ Cell(1).data \cap ((0..15) \cup (48..95)) = {}
    /\ Cell(2).mapped /\ 47 \in Cell(2).data /\ 64 \in Cell(2).data
    /\ Cell(2).data \cap ((0..15) \cup (48..63)) = {}
    /\ Cell(3).mapped /\ 47 \notin Cell(3).data
    /\ Len(out) = 6 /\ Last(out).t = "idt" /\ Last(out).idx = 1

\* C10: in a walk, every read below the PML4 is at (entry above & ~0xFFF) +
\* index * 8, also when the PML4 entry has bit 7 set; a present PT entry
\* resolves as a 4KB page at (pt_entry & ~0xFFF) | (V & 0xFFF) whatever its
\* bit 7; and the finished walk shows a 4KB page if and only if four entries
\* were read, all readable and present, with bit 7 clear in the PDPT and
\* the PD entry.
C10_PageSizeBit ==
    Walking =>
      /\ \A k \in DOMAIN reads :
           reads[k].a = Add(IF k = 1 THEN reg.v \ (0..11) ELSE Cell(k - 1).data \ (0..11),
                            {b + 3 : b \in LevelIndex(k)})
      /\ (pc = "done" /\ Len(reads) >= 1 /\ Cell(1).mapped /\ 0 \in Cell(1).data)
           => Len(reads) >= 2
      /\ (Len(reads) = 4 /\ Cell(4).mapped /\ 0 \in Cell(4).data)
           => Last(out) = [t |-> "resolved", size |-> "4KB",
                           pa |-> (Cell(4).data \ (0..11)) \cup (virt_addr \cap (0..11))]
      /\ pc = "done" =>
           ( (Last(out).t = "resolved" /\ Last(out).size = "4KB")
             <=> ( /\ Len(reads) = 4
                   /\ \A k \in 1..4 : Cell(k).mapped /\ 0 \in Cell(k).data
                   /\ 7 \notin Cell(2).data
                   /\ 7 \notin Cell(3).data ) )

C10_Witness ==
    /\ Walking /\ pc = "done" /\ Len(reads) = 4
    /\ 7 \in Cell(1).data
    /\ 7 \in Cell(4).data
    /\ Last(out).t = "resolved" /\ Last(out).size = "4KB"

====
